---- MODULE Spec2Model ----
(***************************************************************************)
(* RealLLMFunctionCalling (src/main.py): the function-calling            *)
(* orchestration loop chat_with_function_calling, the tool dispatcher      *)
(* execute_function_call and the conversation history they maintain.       *)
(*                                                                         *)
(* The model endpoint, the tool providers and the caller are the           *)
(* environment: every response, failure signal and provider outcome is     *)
(* chosen nondeterministically from small sets.                            *)
(***************************************************************************)
EXTENDS Integers, Sequences, FiniteSets, TLC

(***************************************************************************)
(* Bounds of the model.                                                    *)
(***************************************************************************)
\* largest max_retries argument a caller passes, and the number of rate-limit
\* and timeout signals the model endpoint raises in one session
MaxRetries == 2
\* number of tool invocations the model requests in one session (so at most
\* that many in one response)
MaxBatch == 2
\* number of chat_with_function_calling calls in one session
MaxExchanges == 2

(***************************************************************************)
(* Python values.                                                          *)
(***************************************************************************)
\* Optional[str]: the content of an assistant message, the return value
None == [isNone |-> TRUE, s |-> ""]
Str(s) == [isNone |-> FALSE, s |-> s]

\* the two fixed return strings and the apology prefix (translated)
FALLBACK_MESSAGE == "sorry, unable to complete your request after multiple attempts"
APOLOGY_PREFIX == "sorry, I ran into a technical problem: "

(***************************************************************************)
(* The tool registry: function_map and the signatures of the adapters.     *)
(***************************************************************************)
function_map ==
    [ get_real_weather         |-> [required |-> {"city"}, optional |-> {"units"}],
      search_news              |-> [required |-> {"query"}, optional |-> {"category", "country"}],
      analyze_stock            |-> [required |-> {"symbol"}, optional |-> {"period"}],
      send_email               |-> [required |-> {"to", "subject", "content"}, optional |-> {}],
      send_message_with_weixin |-> [required |-> {"user_name", "content"}, optional |-> {}] ]

(***************************************************************************)
(* json.loads on the raw argument payloads the model emits.  A payload is  *)
(* a string; parsing yields a JSON value (here: its kind and, for an       *)
(* object, its keys) or raises JSONDecodeError.                            *)
(***************************************************************************)
P_CITY == "{\"city\": \"Paris\"}"
P_CITY_UNITS == "{\"city\": \"Paris\", \"units\": \"metric\"}"
P_CITY_EXTRA == "{\"city\": \"Paris\", \"bogus\": 1}"
P_SYMBOL == "{\"symbol\": \"AAPL\"}"
P_WEIXIN == "{\"user_name\": \"crush\", \"content\": \"hi\"}"
P_EMPTY == "{}"
P_ARRAY == "[1]"
P_NULL == "null"
P_TEXT == "\"Paris\""
P_BAD == "{\"city\": "

JsonObject(keys) == [kind |-> "object", keys |-> keys]
JsonOther(kind) == [kind |-> kind, keys |-> {}]

\* [ok |-> TRUE, value |-> v] or [ok |-> FALSE] for JSONDecodeError
json_loads(raw) ==
    CASE raw = P_CITY       -> [ok |-> TRUE, value |-> JsonObject({"city"})]
      [] raw = P_CITY_UNITS -> [ok |-> TRUE, value |-> JsonObject({"city", "units"})]
      [] raw = P_CITY_EXTRA -> [ok |-> TRUE, value |-> JsonObject({"city", "bogus"})]
      [] raw = P_SYMBOL     -> [ok |-> TRUE, value |-> JsonObject({"symbol"})]
      [] raw = P_WEIXIN     -> [ok |-> TRUE, value |-> JsonObject({"user_name", "content"})]
      [] raw = P_EMPTY      -> [ok |-> TRUE, value |-> JsonObject({})]
      [] raw = P_ARRAY      -> [ok |-> TRUE, value |-> JsonOther("array")]
      [] raw = P_NULL       -> [ok |-> TRUE, value |-> JsonOther("null")]
      [] raw = P_TEXT       -> [ok |-> TRUE, value |-> JsonOther("string")]
      [] OTHER              -> [ok |-> FALSE, value |-> JsonOther("undefined")]

ParsedValues ==
    {json_loads(raw).value : raw \in {P_CITY, P_CITY_UNITS, P_CITY_EXTRA, P_SYMBOL,
                                      P_WEIXIN, P_EMPTY, P_ARRAY, P_NULL, P_TEXT}}

(***************************************************************************)
(* execute_function_call.                                                  *)
(***************************************************************************)
\* f(**arguments) that accepts keywords the signature does not have
BindsIgnoringExtra(sig, arguments) ==
    /\ arguments.kind = "object"
    /\ sig.required \subseteq arguments.keys

\* f(**arguments) binds: arguments is a mapping, every required parameter is
\* given and no unexpected keyword is given; otherwise the call raises
\* TypeError before the adapter's body runs
Binds(sig, arguments) ==
    /\ arguments.kind = "object"
    /\ sig.required \subseteq arguments.keys
    /\ arguments.keys \subseteq (sig.required \cup sig.optional)

\* what happens when the body of an adapter runs; every adapter wraps its
\* whole body in try/except Exception, so it returns one of two dicts:
\*   "ok"     {"success": True, "data": ...}
\*   "fail"   {"success": False, "error": ...}  (the provider failed)
AdapterOutcomes == {"ok", "fail"}

\* an adapter whose failure dict also carries a data payload
AdapterResultWithBoth(function_name, outcome) ==
    IF outcome = "ok"
    THEN [success |-> TRUE, data |-> function_name \o " data", error |-> ""]
    ELSE [success |-> FALSE, data |-> function_name \o " partial data",
          error |-> function_name \o " failed"]

\* the dict an adapter returns (a dict without "data" or "error" has "")
AdapterResult(function_name, outcome) ==
    IF outcome = "ok"
    THEN [success |-> TRUE, data |-> function_name \o " data", error |-> ""]
    ELSE [success |-> FALSE, data |-> "", error |-> function_name \o " failed"]

UnknownFunction(function_name) ==
    [success |-> FALSE, data |-> "", error |-> "unknown function: " \o function_name]

\* except TypeError (419-423)
ArgumentError == [success |-> FALSE, data |-> "", error |-> "function argument error"]

\* except Exception (424-428)
ExecutionError == [success |-> FALSE, data |-> "", error |-> "function execution exception"]

\* what a call function_map[function_name](**arguments) that binds can do, as
\* execute_function_call sees it: return one of the two dicts, or let an
\* exception escape ("raise"); the five adapters catch Exception themselves,
\* so with them only an error raised inside a handler escapes
CallOutcomes == AdapterOutcomes \cup {"raise"}

\* whether execute_function_call runs the body of an adapter
AdapterInvoked(function_name, arguments) ==
    /\ function_name \in DOMAIN function_map
    /\ Binds(function_map[function_name], arguments)

\* the dispatcher with the binding of the arguments tried before the lookup
execute_function_call_args_first(function_name, arguments, outcome) ==
    IF arguments.kind # "object" THEN ArgumentError
    ELSE IF function_name \notin DOMAIN function_map THEN UnknownFunction(function_name)
    ELSE IF ~Binds(function_map[function_name], arguments) THEN ArgumentError
    ELSE IF outcome = "raise" THEN ExecutionError
    ELSE AdapterResult(function_name, outcome)

\* lines 399-428; outcome is what the adapter's body does if it runs
execute_function_call(function_name, arguments, outcome) ==
    IF function_name \notin DOMAIN function_map THEN UnknownFunction(function_name)
    ELSE IF ~Binds(function_map[function_name], arguments) THEN ArgumentError
    ELSE IF outcome = "raise" THEN ExecutionError
    ELSE AdapterResult(function_name, outcome)

\* json.dumps(function_result, ensure_ascii=False); the dicts above hold
\* only JSON types, so it does not raise
json_dumps(function_result) ==
    IF function_result.success
    THEN "{\"success\": true, \"data\": \"" \o function_result.data \o "\"}"
    ELSE "{\"success\": false, \"error\": \"" \o function_result.error \o "\"}"

(***************************************************************************)
(* The environment: what the caller, the model endpoint and the providers  *)
(* can send.                                                               *)
(***************************************************************************)
UserMessages == {"q"}
\* message.content of a response: text, or absent
OptContents == {None, Str("answer")}
\* str(e) of a model-call failure that is neither RateLimitError nor APITimeoutError
Causes == {"APIError"}
\* the max_retries arguments a caller passes (default 3 in the source)
RetryChoices == 0..MaxRetries

ToolCall(id, name, raw) ==
    [id |-> id, type |-> "function", function |-> [name |-> name, arguments |-> raw]]

\* the tool invocations a model response can carry
ToolCallChoices ==
    { ToolCall("call_a", "get_real_weather", P_CITY),
      ToolCall("call_b", "no_such_tool", P_ARRAY),
      ToolCall("call_c", "get_real_weather", P_BAD) }

\* the content that comes with a tool_calls list: absent, or text as well on
\* the largest lists
ToolCallContents(tcs) == IF Len(tcs) = MaxBatch THEN OptContents ELSE {None}

\* non-empty tool_calls lists of a response (an empty list is falsy: line 464)
Batches(n) == UNION {[1..k -> ToolCallChoices] : k \in 1..n}

(***************************************************************************)
(* State.                                                                  *)
(***************************************************************************)
VARIABLES
    conversation_history,  \* self.conversation_history
    pc,            \* position in chat_with_function_calling:
                   \*   "idle" not running, "loop" at the while test (446),
                   \*   "dispatch" in the for loop (485), "call2" at line 501;
                   \*   "exited" once start_interactive_chat has left its loop
    retry_count,   \* local retry_count
    max_retries,   \* argument max_retries
    tool_calls,    \* assistant_message.tool_calls of the response being dispatched
    idx,           \* 1-based position of the for loop in tool_calls
    returned,      \* value the last call of chat_with_function_calling returned
    exit,          \* which return statement it left by ("none" while running)
    calls,         \* the client.chat.completions.create calls of this exchange
    batches,       \* dispatch rounds (for loops entered) in this exchange
    waits,         \* the time.sleep arguments of this exchange, in order
    exec,          \* the last execute_function_call call and its result
    adapter_log,   \* the adapter bodies run in this exchange, in order
    exchanges,     \* chat_with_function_calling calls so far
    invocations,   \* tool invocations requested so far
    signals        \* rate-limit and timeout signals raised so far

vars == <<conversation_history, pc, retry_count, max_retries, tool_calls, idx,
          returned, exit, calls, batches, waits, exec, adapter_log, exchanges,
          invocations, signals>>

NoResult == [success |-> FALSE, data |-> "", error |-> ""]
NoExec == [phase |-> "none", function_name |-> "", arguments |-> JsonOther("undefined"),
           outcome |-> "none", result |-> NoResult, adapter_called |-> FALSE]

(***************************************************************************)
(* Turns of the conversation history.                                      *)
(***************************************************************************)
UserTurn(user_message) == [role |-> "user", content |-> user_message]

\* an assistant turn whose absent content is stored as empty text
AssistantToolCallsTurnText(content, tcs) ==
    [role |-> "assistant",
     content |-> IF content.isNone THEN Str("") ELSE content,
     tool_calls |-> tcs]

\* lines 468-482
AssistantToolCallsTurn(content, tcs) ==
    [role |-> "assistant",
     content |-> content,
     tool_calls |-> [i \in 1..Len(tcs) |->
                        [id |-> tcs[i].id, type |-> tcs[i].type,
                         function |-> [name |-> tcs[i].function.name,
                                       arguments |-> tcs[i].function.arguments]]]]

\* a tool turn correlated by the function's name instead of the invocation's id
ToolTurnByName(tool_call, function_result) ==
    [role |-> "tool", content |-> json_dumps(function_result),
     tool_call_id |-> tool_call.function.name]

ToolTurn(tool_call, function_result) ==
    [role |-> "tool", content |-> json_dumps(function_result),
     tool_call_id |-> tool_call.id]

AssistantTurn(final_message) == [role |-> "assistant", content |-> final_message]

(***************************************************************************)
(* Construction.                                                           *)
(***************************************************************************)
Init ==
    /\ conversation_history = <<>>
    /\ pc = "idle"
    /\ retry_count = 0
    /\ max_retries = 0
    /\ tool_calls = <<>>
    /\ idx = 0
    /\ returned = None
    /\ exit = "none"
    /\ calls = <<>>
    /\ batches = 0
    /\ waits = <<>>
    /\ exec = NoExec
    /\ adapter_log = <<>>
    /\ exchanges = 0
    /\ invocations = 0
    /\ signals = 0

(***************************************************************************)
(* chat_with_function_calling.                                             *)
(***************************************************************************)
\* a return statement: the locals of the call are gone
Return(value, how) ==
    /\ returned' = value
    /\ exit' = how
    /\ pc' = "idle"
    /\ tool_calls' = <<>>
    /\ idx' = 0

\* a create() call: whether tools were offered, how it ended, the message it
\* returned (NoResponse when it raised), the dispatch rounds before it and
\* the keyword arguments it was given
NoResponse == [content |-> None, tool_calls |-> <<>>]

\* self.tools (30-151): the names of the advertised tools, in order
self_tools ==
    <<"get_real_weather", "search_news", "analyze_stock", "send_email",
      "send_message_with_weixin">>

\* a keyword argument that is not passed to create()
NotGiven == <<"NOT_GIVEN">>

\* a request that carries only the turns of the current exchange
CreateWithToolsWindowed ==
    LET last_user == CHOOSE i \in 1..Len(conversation_history) :
                         /\ conversation_history[i].role = "user"
                         /\ \A j \in (i + 1)..Len(conversation_history) :
                                conversation_history[j].role # "user"
    IN  [messages |-> SubSeq(conversation_history, last_user, Len(conversation_history)),
         tools |-> self_tools, tool_choice |-> <<"auto">>]

\* the keyword arguments of the create() call of lines 451-458
CreateWithTools ==
    [messages |-> conversation_history, tools |-> self_tools, tool_choice |-> <<"auto">>]

\* the keyword arguments of the create() call of lines 501-506
CreateWithoutTools ==
    [messages |-> conversation_history, tools |-> NotGiven, tool_choice |-> NotGiven]

LogCall(tools, outcome, response) ==
    calls' = Append(calls, [tools |-> tools, outcome |-> outcome, response |-> response,
                            batches |-> batches,
                            request |-> IF tools THEN CreateWithTools
                                        ELSE CreateWithoutTools])

\* the model endpoint raises RateLimitError or APITimeoutError
RaiseSignal ==
    /\ signals < MaxRetries
    /\ signals' = signals + 1

\* a backoff that does not grow
wait_time_constant(n) == 2

\* a backoff computed from the counter before its increment
wait_time_before_increment(n) == 2 ^ (n - 1)

\* line 534: wait_time = 2 ** retry_count
wait_time(n) == 2 ^ n

\* a rate-limit handler that does not sleep when no attempt is left
OnRateLimitErrorNoLastWait ==
    /\ retry_count' = retry_count + 1
    /\ waits' = IF retry_count + 1 < max_retries
                THEN Append(waits, wait_time(retry_count + 1))
                ELSE waits
    /\ pc' = "loop"
    /\ tool_calls' = <<>>
    /\ idx' = 0
    /\ UNCHANGED <<conversation_history, max_retries, returned, exit, batches, exec,
                   adapter_log, exchanges, invocations>>

\* except openai.RateLimitError (532-536); the locals of the try body are
\* dead: they are assigned again before they are read
OnRateLimitError ==
    /\ retry_count' = retry_count + 1
    /\ waits' = Append(waits, wait_time(retry_count + 1))
    /\ pc' = "loop"
    /\ tool_calls' = <<>>
    /\ idx' = 0
    /\ UNCHANGED <<conversation_history, max_retries, returned, exit, batches, exec,
                   adapter_log, exchanges, invocations>>

\* a timeout handler that takes back the last turn of the failed attempt
OnAPITimeoutErrorRollback ==
    /\ retry_count' = retry_count + 1
    /\ pc' = "loop"
    /\ tool_calls' = <<>>
    /\ idx' = 0
    /\ conversation_history' =
           IF conversation_history[Len(conversation_history)].role = "user"
           THEN conversation_history
           ELSE SubSeq(conversation_history, 1, Len(conversation_history) - 1)
    /\ UNCHANGED <<max_retries, returned, exit, batches, waits, exec, adapter_log,
                   exchanges, invocations>>

\* a timeout handler that counts timeouts apart from the rate-limit counter
OnAPITimeoutErrorOwnCounter ==
    /\ retry_count' = retry_count
    /\ pc' = "loop"
    /\ tool_calls' = <<>>
    /\ idx' = 0
    /\ UNCHANGED <<conversation_history, max_retries, returned, exit, batches, waits,
                   exec, adapter_log, exchanges, invocations>>

\* except openai.APITimeoutError (538-540)
OnAPITimeoutError ==
    /\ retry_count' = retry_count + 1
    /\ pc' = "loop"
    /\ tool_calls' = <<>>
    /\ idx' = 0
    /\ UNCHANGED <<conversation_history, max_retries, returned, exit, batches, waits,
                   exec, adapter_log, exchanges, invocations>>

\* any other failure counted as one more attempt instead of returning
OnExceptionRetried(cause) ==
    /\ retry_count' = retry_count + 1
    /\ pc' = "loop"
    /\ tool_calls' = <<>>
    /\ idx' = 0
    /\ UNCHANGED <<conversation_history, max_retries, returned, exit, batches, waits,
                   adapter_log, exchanges, invocations, signals>>

\* except Exception as e (542-544)
OnException(cause) ==
    /\ Return(Str(APOLOGY_PREFIX \o cause), "apology")
    /\ UNCHANGED <<conversation_history, retry_count, max_retries, batches, waits,
                   adapter_log, exchanges, invocations, signals>>

\* a call that goes on with the attempt counter of the call before it
ChatKeepCounter ==
    /\ pc = "idle"
    /\ exchanges < MaxExchanges
    /\ \E user_message \in UserMessages, mr \in RetryChoices :
        /\ conversation_history' = Append(conversation_history, UserTurn(user_message))
        /\ max_retries' = mr
    /\ retry_count' = retry_count
    /\ pc' = "loop"
    /\ returned' = None
    /\ exit' = "none"
    /\ calls' = <<>>
    /\ batches' = 0
    /\ waits' = <<>>
    /\ adapter_log' = <<>>
    /\ exchanges' = exchanges + 1
    /\ UNCHANGED <<tool_calls, idx, exec, invocations, signals>>

\* lines 430-444: append the user turn, retry_count = 0
Chat ==
    /\ pc = "idle"
    /\ exchanges < MaxExchanges
    /\ \E user_message \in UserMessages, mr \in RetryChoices :
        /\ conversation_history' = Append(conversation_history, UserTurn(user_message))
        /\ max_retries' = mr
    /\ retry_count' = 0
    /\ pc' = "loop"
    /\ returned' = None
    /\ exit' = "none"
    /\ calls' = <<>>
    /\ batches' = 0
    /\ waits' = <<>>
    /\ adapter_log' = <<>>
    /\ exchanges' = exchanges + 1
    /\ UNCHANGED <<tool_calls, idx, exec, invocations, signals>>

\* a fallback return that also stores the fallback message as an assistant turn
LoopExitStoresFallback ==
    /\ pc = "loop"
    /\ ~(retry_count < max_retries)
    /\ Return(Str(FALLBACK_MESSAGE), "fallback")
    /\ conversation_history' =
           Append(conversation_history, AssistantTurn(Str(FALLBACK_MESSAGE)))
    /\ UNCHANGED <<retry_count, max_retries, calls, batches, waits,
                   exec, adapter_log, exchanges, invocations, signals>>

\* line 446 false, line 546
LoopExit ==
    /\ pc = "loop"
    /\ ~(retry_count < max_retries)
    /\ Return(Str(FALLBACK_MESSAGE), "fallback")
    /\ UNCHANGED <<conversation_history, retry_count, max_retries, calls, batches, waits,
                   exec, adapter_log, exchanges, invocations, signals>>

\* a direct reply that is stored and then followed by the call without tools
Call1DirectSecondCall ==
    /\ pc = "loop"
    /\ retry_count < max_retries
    /\ \E content \in OptContents :
        /\ conversation_history' = Append(conversation_history, AssistantTurn(content))
        /\ LogCall(TRUE, "direct", [content |-> content, tool_calls |-> <<>>])
    /\ pc' = "call2"
    /\ UNCHANGED <<retry_count, max_retries, tool_calls, idx, returned, exit, batches,
                   waits, exec, adapter_log, exchanges, invocations, signals>>

\* lines 451-464 and 519-530: the response carries no tool_calls
Call1Direct ==
    /\ pc = "loop"
    /\ retry_count < max_retries
    /\ \E content \in OptContents :
        /\ conversation_history' = Append(conversation_history, AssistantTurn(content))
        /\ Return(content, "direct")
        /\ LogCall(TRUE, "direct", [content |-> content, tool_calls |-> <<>>])
    /\ UNCHANGED <<retry_count, max_retries, batches, waits, exec, adapter_log,
                   exchanges, invocations, signals>>

\* lines 451-482: the response carries tool_calls
Call1Tools ==
    /\ pc = "loop"
    /\ retry_count < max_retries
    /\ \E tcs \in Batches(MaxBatch) : \E content \in ToolCallContents(tcs) :
        /\ invocations + Len(tcs) <= MaxBatch
        /\ conversation_history' =
               Append(conversation_history, AssistantToolCallsTurn(content, tcs))
        /\ tool_calls' = tcs
        /\ invocations' = invocations + Len(tcs)
        /\ LogCall(TRUE, "tool_calls", [content |-> content, tool_calls |-> tcs])
    /\ idx' = 1
    /\ pc' = "dispatch"
    /\ batches' = batches + 1
    /\ UNCHANGED <<retry_count, max_retries, returned, exit, waits, exec, adapter_log,
                   exchanges, signals>>

Call1RateLimit ==
    /\ pc = "loop"
    /\ retry_count < max_retries
    /\ RaiseSignal
    /\ LogCall(TRUE, "rate_limit", NoResponse)
    /\ OnRateLimitError

Call1Timeout ==
    /\ pc = "loop"
    /\ retry_count < max_retries
    /\ RaiseSignal
    /\ LogCall(TRUE, "timeout", NoResponse)
    /\ OnAPITimeoutError

Call1Error ==
    /\ pc = "loop"
    /\ retry_count < max_retries
    /\ LogCall(TRUE, "error", NoResponse)
    /\ \E cause \in Causes : OnException(cause)
    /\ UNCHANGED exec

\* a for loop that gives up the exchange when a tool reports success=false
DispatchStopOnFailure ==
    /\ pc = "dispatch"
    /\ LET tool_call == tool_calls[idx]
           function_name == tool_call.function.name
           parsed == json_loads(tool_call.function.arguments)
           function_args == parsed.value
           invoked == AdapterInvoked(function_name, function_args)
       IN  IF ~parsed.ok
           THEN /\ OnException("JSONDecodeError")
                /\ UNCHANGED <<calls, exec>>
           ELSE \E outcome \in (IF invoked THEN AdapterOutcomes ELSE {"none"}) :
                LET function_result ==
                        execute_function_call(function_name, function_args, outcome)
                IN  /\ exec' = [phase |-> "returned", function_name |-> function_name,
                                arguments |-> function_args, outcome |-> outcome,
                                result |-> function_result, adapter_called |-> invoked]
                    /\ conversation_history' =
                           Append(conversation_history, ToolTurn(tool_call, function_result))
                    /\ adapter_log' =
                           IF invoked THEN Append(adapter_log, tool_call.id) ELSE adapter_log
                    /\ IF function_result.success
                       THEN /\ idx' = idx + 1
                            /\ pc' = IF idx = Len(tool_calls) THEN "call2" ELSE "dispatch"
                            /\ UNCHANGED <<tool_calls, returned, exit>>
                       ELSE Return(Str(APOLOGY_PREFIX \o function_result.error), "apology")
                    /\ UNCHANGED <<retry_count, max_retries, calls, batches, waits,
                                   exchanges, invocations, signals>>

\* a for loop that walks the tool_calls from the last one to the first
DispatchReversed ==
    /\ pc = "dispatch"
    /\ LET tool_call == tool_calls[Len(tool_calls) + 1 - idx]
           function_name == tool_call.function.name
           parsed == json_loads(tool_call.function.arguments)
           function_args == parsed.value
           invoked == AdapterInvoked(function_name, function_args)
       IN  IF ~parsed.ok
           THEN /\ OnException("JSONDecodeError")
                /\ UNCHANGED <<calls, exec>>
           ELSE \E outcome \in (IF invoked THEN AdapterOutcomes ELSE {"none"}) :
                LET function_result ==
                        execute_function_call(function_name, function_args, outcome)
                IN  /\ exec' = [phase |-> "returned", function_name |-> function_name,
                                arguments |-> function_args, outcome |-> outcome,
                                result |-> function_result, adapter_called |-> invoked]
                    /\ conversation_history' =
                           Append(conversation_history, ToolTurn(tool_call, function_result))
                    /\ adapter_log' =
                           IF invoked THEN Append(adapter_log, tool_call.id) ELSE adapter_log
                    /\ idx' = idx + 1
                    /\ pc' = IF idx = Len(tool_calls) THEN "call2" ELSE "dispatch"
                    /\ UNCHANGED <<retry_count, max_retries, tool_calls, returned, exit,
                                   calls, batches, waits, exchanges, invocations, signals>>

\* one iteration of the for loop, lines 485-497
Dispatch ==
    /\ pc = "dispatch"
    /\ LET tool_call == tool_calls[idx]
           function_name == tool_call.function.name
           parsed == json_loads(tool_call.function.arguments)
           function_args == parsed.value
           invoked == AdapterInvoked(function_name, function_args)
       IN  IF ~parsed.ok
           THEN \* json.loads raises inside the try of line 447
                /\ OnException("JSONDecodeError")
                /\ UNCHANGED <<calls, exec>>
           ELSE \E outcome \in (IF invoked THEN AdapterOutcomes ELSE {"none"}) :
                LET function_result ==
                        execute_function_call(function_name, function_args, outcome)
                IN  /\ exec' = [phase |-> "returned", function_name |-> function_name,
                                arguments |-> function_args, outcome |-> outcome,
                                result |-> function_result, adapter_called |-> invoked]
                    /\ conversation_history' =
                           Append(conversation_history, ToolTurn(tool_call, function_result))
                    /\ adapter_log' =
                           IF invoked THEN Append(adapter_log, tool_call.id) ELSE adapter_log
                    /\ idx' = idx + 1
                    /\ pc' = IF idx = Len(tool_calls) THEN "call2" ELSE "dispatch"
                    /\ UNCHANGED <<retry_count, max_retries, tool_calls, returned, exit,
                                   calls, batches, waits, exchanges, invocations, signals>>

\* lines 501-517: the call without tools succeeds
Call2Answer ==
    /\ pc = "call2"
    /\ \E final_message \in OptContents :
        /\ conversation_history' =
               Append(conversation_history, AssistantTurn(final_message))
        /\ Return(final_message, "answer")
        /\ LogCall(FALSE, "answer", [content |-> final_message, tool_calls |-> <<>>])
    /\ UNCHANGED <<retry_count, max_retries, batches, waits, exec, adapter_log,
                   exchanges, invocations, signals>>

Call2RateLimit ==
    /\ pc = "call2"
    /\ RaiseSignal
    /\ LogCall(FALSE, "rate_limit", NoResponse)
    /\ OnRateLimitError

Call2Timeout ==
    /\ pc = "call2"
    /\ RaiseSignal
    /\ LogCall(FALSE, "timeout", NoResponse)
    /\ OnAPITimeoutError

Call2Error ==
    /\ pc = "call2"
    /\ LogCall(FALSE, "error", NoResponse)
    /\ \E cause \in Causes : OnException(cause)
    /\ UNCHANGED exec

Next ==
    \/ Chat
    \/ LoopExit
    \/ Call1Direct
    \/ Call1Tools
    \/ Call1RateLimit
    \/ Call1Timeout
    \/ Call1Error
    \/ Dispatch
    \/ Call2Answer
    \/ Call2RateLimit
    \/ Call2Timeout
    \/ Call2Error

Spec == Init /\ [][Next]_vars

(***************************************************************************)
(* start_interactive_chat: the read loop calls chat_with_function_calling  *)
(* for every input; it ends on a quit word or on KeyboardInterrupt, which  *)
(* nothing inside chat_with_function_calling catches (it is no Exception). *)
(***************************************************************************)
\* lines 562-564: a quit word is read
Quit ==
    /\ pc = "idle"
    /\ pc' = "exited"
    /\ exit' = "quit"
    /\ UNCHANGED <<conversation_history, retry_count, max_retries, tool_calls, idx,
                   returned, calls, batches, waits, exec, adapter_log, exchanges,
                   invocations, signals>>

\* lines 575-577: KeyboardInterrupt arrives at input() or anywhere inside the
\* call of line 571 and unwinds to the handler, which leaves the loop
KeyboardInterrupt ==
    /\ pc \in {"idle", "loop", "dispatch", "call2"}
    /\ pc' = "exited"
    /\ exit' = "interrupt"
    /\ tool_calls' = <<>>
    /\ idx' = 0
    /\ UNCHANGED <<conversation_history, retry_count, max_retries, returned, calls,
                   batches, waits, exec, adapter_log, exchanges, invocations, signals>>

NextInteractive == Next \/ Quit \/ KeyboardInterrupt

SpecInteractive == Init /\ [][NextInteractive]_vars

(***************************************************************************)
(* Two instances of RealLLMFunctionCalling, each running its own           *)
(* chat_with_function_calling calls, interleaved statement by statement.   *)
(* Here conversation_history, pc, retry_count, max_retries, tool_calls,    *)
(* idx, returned, exit and exchanges hold one value per instance.  The     *)
(* endpoint answers every instance from the same small sets, and the       *)
(* budgets of exchanges, invocations and signals are those of the run.     *)
(***************************************************************************)
Sessions == {"s1", "s2"}

\* the list object an instance that shares one class-level list refers to
list_of_class(s) == "RealLLMFunctionCalling"

\* line 27: self.conversation_history = [] makes a list object of the
\* instance's own; the list object instance s refers to
list_of(s) == s

\* self.conversation_history.append(turn) in instance s: every instance that
\* refers to the same list object sees the turn
AppendTurn(s, turn) ==
    conversation_history' =
        [t \in Sessions |->
            IF list_of(t) = list_of(s) THEN Append(conversation_history[t], turn)
            ELSE conversation_history[t]]

\* what the user of instance s types, and the invocation a response to
\* instance s carries
UserMessageOf(s) == "q of " \o s
ToolCallOf(s) == ToolCall("call_" \o s, "get_real_weather", P_CITY)

\* everything an exchange of instance s can leave in a history
TurnsOf(s) ==
    {UserTurn(UserMessageOf(s))}
        \cup {AssistantTurn(content) : content \in OptContents}
        \cup {AssistantToolCallsTurn(None, [i \in 1..k |-> ToolCallOf(s)]) : k \in 1..MaxBatch}
        \cup {ToolTurn(ToolCallOf(s), AdapterResult("get_real_weather", outcome)) :
                  outcome \in AdapterOutcomes}

InitSessions ==
    /\ conversation_history = [s \in Sessions |-> <<>>]
    /\ pc = [s \in Sessions |-> "idle"]
    /\ retry_count = [s \in Sessions |-> 0]
    /\ max_retries = [s \in Sessions |-> 0]
    /\ tool_calls = [s \in Sessions |-> <<>>]
    /\ idx = [s \in Sessions |-> 0]
    /\ returned = [s \in Sessions |-> None]
    /\ exit = [s \in Sessions |-> "none"]
    /\ exchanges = [s \in Sessions |-> 0]
    /\ calls = <<>>
    /\ batches = 0
    /\ waits = <<>>
    /\ exec = NoExec
    /\ adapter_log = <<>>
    /\ invocations = 0
    /\ signals = 0

\* a return statement of instance s
SessionReturn(s, value, how) ==
    /\ returned' = [returned EXCEPT ![s] = value]
    /\ exit' = [exit EXCEPT ![s] = how]
    /\ pc' = [pc EXCEPT ![s] = "idle"]
    /\ tool_calls' = [tool_calls EXCEPT ![s] = <<>>]
    /\ idx' = [idx EXCEPT ![s] = 0]

\* lines 430-444 in instance s
SessionChat(s) ==
    /\ pc[s] = "idle"
    /\ exchanges["s1"] + exchanges["s2"] < MaxExchanges
    /\ AppendTurn(s, UserTurn(UserMessageOf(s)))
    /\ max_retries' = [max_retries EXCEPT ![s] = MaxRetries]
    /\ retry_count' = [retry_count EXCEPT ![s] = 0]
    /\ pc' = [pc EXCEPT ![s] = "loop"]
    /\ returned' = [returned EXCEPT ![s] = None]
    /\ exit' = [exit EXCEPT ![s] = "none"]
    /\ exchanges' = [exchanges EXCEPT ![s] = @ + 1]
    /\ UNCHANGED <<tool_calls, idx, calls, batches, waits, exec, adapter_log,
                   invocations, signals>>

\* line 446 false, line 546
SessionLoopExit(s) ==
    /\ pc[s] = "loop"
    /\ ~(retry_count[s] < max_retries[s])
    /\ SessionReturn(s, Str(FALLBACK_MESSAGE), "fallback")
    /\ UNCHANGED <<conversation_history, retry_count, max_retries, calls, batches, waits,
                   exec, adapter_log, exchanges, invocations, signals>>

\* lines 451-464 and 519-530
SessionCall1Direct(s) ==
    /\ pc[s] = "loop"
    /\ retry_count[s] < max_retries[s]
    /\ \E content \in OptContents :
        /\ AppendTurn(s, AssistantTurn(content))
        /\ SessionReturn(s, content, "direct")
    /\ UNCHANGED <<retry_count, max_retries, calls, batches, waits, exec, adapter_log,
                   exchanges, invocations, signals>>

\* lines 451-482
SessionCall1Tools(s) ==
    /\ pc[s] = "loop"
    /\ retry_count[s] < max_retries[s]
    /\ \E k \in 1..MaxBatch :
        /\ invocations + k <= MaxBatch
        /\ AppendTurn(s, AssistantToolCallsTurn(None, [i \in 1..k |-> ToolCallOf(s)]))
        /\ tool_calls' = [tool_calls EXCEPT ![s] = [i \in 1..k |-> ToolCallOf(s)]]
        /\ invocations' = invocations + k
    /\ idx' = [idx EXCEPT ![s] = 1]
    /\ pc' = [pc EXCEPT ![s] = "dispatch"]
    /\ UNCHANGED <<retry_count, max_retries, returned, exit, calls, batches, waits, exec,
                   adapter_log, exchanges, signals>>

\* lines 532-540: either create() call of instance s raises RateLimitError
\* or APITimeoutError
SessionCallRetried(s) ==
    /\ \/ pc[s] = "loop" /\ retry_count[s] < max_retries[s]
       \/ pc[s] = "call2"
    /\ RaiseSignal
    /\ retry_count' = [retry_count EXCEPT ![s] = @ + 1]
    /\ pc' = [pc EXCEPT ![s] = "loop"]
    /\ tool_calls' = [tool_calls EXCEPT ![s] = <<>>]
    /\ idx' = [idx EXCEPT ![s] = 0]
    /\ UNCHANGED <<conversation_history, max_retries, returned, exit, calls, batches,
                   waits, exec, adapter_log, exchanges, invocations>>

\* lines 542-544: either create() call of instance s raises another error
SessionCallError(s) ==
    /\ \/ pc[s] = "loop" /\ retry_count[s] < max_retries[s]
       \/ pc[s] = "call2"
    /\ \E cause \in Causes : SessionReturn(s, Str(APOLOGY_PREFIX \o cause), "apology")
    /\ UNCHANGED <<conversation_history, retry_count, max_retries, calls, batches, waits,
                   exec, adapter_log, exchanges, invocations, signals>>

\* one iteration of the for loop of instance s, lines 485-497; function_map
\* (399-405) holds the bound methods of this instance
SessionDispatch(s) ==
    /\ pc[s] = "dispatch"
    /\ LET tool_call == tool_calls[s][idx[s]]
           function_args == json_loads(tool_call.function.arguments).value
       IN  \E outcome \in AdapterOutcomes :
               AppendTurn(s, ToolTurn(tool_call,
                                      execute_function_call(tool_call.function.name,
                                                            function_args, outcome)))
    /\ idx' = [idx EXCEPT ![s] = @ + 1]
    /\ pc' = [pc EXCEPT ![s] = IF idx[s] = Len(tool_calls[s]) THEN "call2" ELSE "dispatch"]
    /\ UNCHANGED <<retry_count, max_retries, tool_calls, returned, exit, calls, batches,
                   waits, exec, adapter_log, exchanges, invocations, signals>>

\* lines 501-517
SessionCall2Answer(s) ==
    /\ pc[s] = "call2"
    /\ \E final_message \in OptContents :
        /\ AppendTurn(s, AssistantTurn(final_message))
        /\ SessionReturn(s, final_message, "answer")
    /\ UNCHANGED <<retry_count, max_retries, calls, batches, waits, exec, adapter_log,
                   exchanges, invocations, signals>>

NextSessions ==
    \/ \E s \in Sessions : SessionChat(s)
    \/ \E s \in Sessions : SessionLoopExit(s)
    \/ \E s \in Sessions : SessionCall1Direct(s)
    \/ \E s \in Sessions : SessionCall1Tools(s)
    \/ \E s \in Sessions : SessionCallRetried(s)
    \/ \E s \in Sessions : SessionCallError(s)
    \/ \E s \in Sessions : SessionDispatch(s)
    \/ \E s \in Sessions : SessionCall2Answer(s)

SpecSessions == InitSessions /\ [][NextSessions]_vars

(***************************************************************************)
(* execute_function_call on its own: every function name and every parsed  *)
(* argument value, called once.                                            *)
(***************************************************************************)
FunctionNames == DOMAIN function_map \cup {"no_such_tool", ""}

InitDispatch ==
    /\ conversation_history = <<>>
    /\ pc = "idle"
    /\ retry_count = 0
    /\ max_retries = 0
    /\ tool_calls = <<>>
    /\ idx = 0
    /\ returned = None
    /\ exit = "none"
    /\ calls = <<>>
    /\ batches = 0
    /\ waits = <<>>
    /\ adapter_log = <<>>
    /\ exchanges = 0
    /\ invocations = 0
    /\ signals = 0
    /\ \E function_name \in FunctionNames, arguments \in ParsedValues,
          outcome \in CallOutcomes :
        exec = [phase |-> "called", function_name |-> function_name,
                arguments |-> arguments, outcome |-> outcome,
                result |-> NoResult, adapter_called |-> FALSE]

ExecuteFunctionCall ==
    /\ exec.phase = "called"
    /\ exec' = [exec EXCEPT
                  !.phase = "returned",
                  !.result = execute_function_call(exec.function_name, exec.arguments,
                                                   exec.outcome),
                  !.adapter_called = AdapterInvoked(exec.function_name, exec.arguments)]
    /\ UNCHANGED <<conversation_history, pc, retry_count, max_retries, tool_calls, idx,
                   returned, exit, calls, batches, waits, adapter_log, exchanges,
                   invocations, signals>>

SpecDispatch == InitDispatch /\ [][ExecuteFunctionCall]_vars

(***************************************************************************)
(* Properties.                                                             *)
(***************************************************************************)
\* the last call of chat_with_function_calling has returned
Done == pc = "idle" /\ exit # "none"

HasToolCalls(turn) == turn.role = "assistant" /\ "tool_calls" \in DOMAIN turn

\* C1: in one exchange at most one batch of tool invocations is dispatched,
\* and no create() call offering tools is issued once a batch was dispatched
\* (so a rate-limit or timeout of the second call starts no second round).
C1_OneDispatchRound ==
    /\ batches <= 1
    /\ \A i \in 1..Len(calls) : calls[i].tools => calls[i].batches = 0

\* an argument payload that does not parse, is no mapping, or does not fit
\* the parameters of its tool
Malformed(tool_call) ==
    LET parsed == json_loads(tool_call.function.arguments)
    IN  \/ ~parsed.ok
        \/ parsed.value.kind # "object"
        \/ /\ tool_call.function.name \in DOMAIN function_map
           /\ ~Binds(function_map[tool_call.function.name], parsed.value)

FailureContents ==
    {json_dumps(r) : r \in {ArgumentError} \cup {UnknownFunction(n) : n \in {"no_such_tool"}}
                             \cup {AdapterResult(n, "fail") : n \in DOMAIN function_map}}

\* C2: a malformed argument payload is contained as data: every invocation
\* the for loop has passed left a tool turn with its id (success=false when
\* the payload is malformed), and the exchange returns the apology only after
\* a create() call failed with a failure that is not retryable.
C2_MalformedArgumentsContained ==
    /\ exit = "apology" => (calls # <<>> /\ calls[Len(calls)].outcome = "error")
    /\ pc \in {"dispatch", "call2"} =>
          \A k \in 1..(idx - 1) :
              LET turn == conversation_history[Len(conversation_history) - (idx - 1) + k]
              IN  /\ turn.role = "tool"
                  /\ turn.tool_call_id = tool_calls[k].id
                  /\ Malformed(tool_calls[k]) => turn.content \in FailureContents

AllRateLimited == \A i \in 1..Len(calls) : calls[i].outcome = "rate_limit"

\* C3: when every create() call of an exchange signalled rate-limiting and
\* max_retries >= 1, exactly max_retries calls were made, the fallback message
\* is returned, no tool was dispatched, and each wait is strictly larger than
\* the one before it.
C3_RetryBudget ==
    (Done /\ max_retries >= 1 /\ AllRateLimited) =>
        /\ Len(calls) = max_retries
        /\ exit = "fallback"
        /\ returned = Str(FALLBACK_MESSAGE)
        /\ batches = 0
        /\ adapter_log = <<>>
        /\ Len(waits) = max_retries
        /\ \A i \in 1..(Len(waits) - 1) : waits[i] < waits[i + 1]

C3_Witness ==
    /\ Done
    /\ max_retries = 2
    /\ Len(calls) = 2
    /\ AllRateLimited
    /\ exit = "fallback"
    /\ waits = <<2, 4>>

\* C4: a create() call that fails with neither a rate-limit nor a timeout
\* signal ends the exchange at once: it is the last call of the exchange, the
\* loop is no longer running (no further call, no further dispatch), whatever
\* attempts remain, and the value returned is the apology with the cause.
C4_OtherFailureAborts ==
    \A i \in 1..Len(calls) :
        calls[i].outcome = "error" =>
            /\ i = Len(calls)
            /\ pc = "idle"
            /\ exit = "apology"
            /\ returned \in {Str(APOLOGY_PREFIX \o cause) : cause \in Causes}
            /\ returned # Str(FALLBACK_MESSAGE)

C4_Witness ==
    /\ Done
    /\ exit = "apology"
    /\ Len(calls) = 1
    /\ calls[1].outcome = "error"
    /\ retry_count = 0
    /\ max_retries = 2
    /\ returned = Str(APOLOGY_PREFIX \o "APIError")

\* C5: every tool turn of the history carries the id of an invocation listed
\* in the most recent assistant turn with tool_calls before it.
C5_Correlation ==
    \A j \in 1..Len(conversation_history) :
        conversation_history[j].role = "tool" =>
            \E i \in 1..(j - 1) :
                /\ HasToolCalls(conversation_history[i])
                /\ \A m \in (i + 1)..(j - 1) : ~HasToolCalls(conversation_history[m])
                /\ \E k \in 1..Len(conversation_history[i].tool_calls) :
                       conversation_history[i].tool_calls[k].id =
                           conversation_history[j].tool_call_id

\* a batch of two invocations, both resolved, in the second round of a session
C5_Witness ==
    /\ Len(conversation_history) >= 6
    /\ LET n == Len(conversation_history)
       IN  /\ conversation_history[n].role = "tool"
           /\ conversation_history[n - 1].role = "tool"
           /\ conversation_history[n].tool_call_id # conversation_history[n - 1].tool_call_id
           /\ HasToolCalls(conversation_history[n - 2])

\* C6: from an empty history, when the first create() call requests n >= 1
\* invocations and both create() calls succeed, the history is the user turn,
\* one assistant turn with the response's content (absent or not) and its n
\* tool_calls verbatim, n tool turns, and one assistant turn whose content is
\* the value returned: n + 3 turns, 4 for n = 1.
C6_ToolExchangeShape ==
    (/\ Done
     /\ exchanges = 1
     /\ Len(calls) = 2
     /\ calls[1].outcome = "tool_calls"
     /\ calls[2].outcome = "answer") =>
        LET h == conversation_history
            tcs == calls[1].response.tool_calls
            n == Len(tcs)
        IN  /\ n >= 1
            /\ Len(h) = n + 3
            /\ h[1] \in {UserTurn(m) : m \in UserMessages}
            /\ h[2] = [role |-> "assistant", content |-> calls[1].response.content,
                       tool_calls |-> tcs]
            /\ \A k \in 1..n : h[2 + k].role = "tool"
            /\ h[n + 3] = [role |-> "assistant", content |-> returned]
            /\ returned = calls[2].response.content
            /\ (n = 1 => Len(h) = 4)

C6_Witness ==
    /\ Done
    /\ exchanges = 1
    /\ Len(calls) = 2
    /\ calls[1].outcome = "tool_calls"
    /\ calls[1].response.content = None
    /\ Len(calls[1].response.tool_calls) = 1
    /\ calls[2].outcome = "answer"
    /\ Len(conversation_history) = 4

\* a step of the for loop in which execute_function_call returns success=false
C7_FailedToolStep ==
    (/\ pc = "dispatch"
     /\ json_loads(tool_calls[idx].function.arguments).ok
     /\ ~exec'.result.success) =>
        /\ conversation_history' =
               Append(conversation_history,
                      [role |-> "tool", content |-> json_dumps(exec'.result),
                       tool_call_id |-> tool_calls[idx].id])
        /\ json_dumps(exec'.result) \in FailureContents
        /\ idx < Len(tool_calls) => (pc' = "dispatch" /\ idx' = idx + 1 /\ tool_calls' = tool_calls)
        /\ idx = Len(tool_calls) => pc' = "call2"

\* the step taken after the last tool turn of a batch
C7_SecondCallStep ==
    pc = "call2" =>
        /\ Len(calls') = Len(calls) + 1
        /\ ~calls'[Len(calls')].tools
        /\ calls'[Len(calls')].outcome = "answer" =>
              /\ pc' = "idle"
              /\ exit' = "answer"
              /\ returned' = calls'[Len(calls')].response.content
              /\ conversation_history'[Len(conversation_history')] =
                     [role |-> "assistant", content |-> returned']

\* C7: a tool execution that returns success=false does not end the
\* exchange: its result is appended as a tool turn and the for loop goes on to
\* the next invocation of the batch, or after the last one to the second
\* create() call; that call is made without tools, and when it succeeds the
\* exchange returns its content and the history ends in an assistant turn.
C7_ToolFailureNonFatal == [][C7_FailedToolStep /\ C7_SecondCallStep]_vars

\* a batch whose first tool failed at its provider, whose second invocation
\* was dispatched all the same, and whose exchange returned the answer
C7_Witness ==
    /\ Done
    /\ exit = "answer"
    /\ Len(conversation_history) = 5
    /\ conversation_history[3].role = "tool"
    /\ conversation_history[3].content = json_dumps(AdapterResult("get_real_weather", "fail"))
    /\ conversation_history[4].role = "tool"
    /\ conversation_history[5] = [role |-> "assistant", content |-> returned]

\* C8: whenever chat_with_function_calling has returned, the value returned
\* is a text string, never an absent value.
C8_ReturnsText == Done => ~returned.isNone

\* C9: every step leaves the history unchanged or appends one turn to it.
C9_AppendOnly ==
    [][\/ conversation_history' = conversation_history
       \/ /\ Len(conversation_history') = Len(conversation_history) + 1
          /\ SubSeq(conversation_history', 1, Len(conversation_history)) =
                 conversation_history]_vars

\* a second exchange that was retried after a timeout and then aborted, after
\* a first one that ran its tools
C9_Witness ==
    /\ Done
    /\ exchanges = 2
    /\ exit = "apology"
    /\ \E i \in 1..Len(calls) : calls[i].outcome = "timeout"
    /\ Len(conversation_history) >= 6

FiveTools ==
    {"get_real_weather", "search_news", "analyze_stock", "send_email",
     "send_message_with_weixin"}

\* C10: for a function name that is none of the five registered tools,
\* execute_function_call returns success=false with the unknown-function
\* error of that name, whatever the arguments are, and runs no adapter.

C10_UnknownFunction ==
    (exec.phase = "returned" /\ exec.function_name \notin FiveTools) =>
        /\ exec.result = [success |-> FALSE, data |-> "",
                          error |-> "unknown function: " \o exec.function_name]
        /\ ~exec.adapter_called

C10_Witness ==
    /\ exec.phase = "returned"
    /\ exec.function_name = "no_such_tool"
    /\ exec.arguments.kind = "array"
    /\ ~exec.result.success

\* the arguments do not fit the signature of the registered tool
C11_Mismatch ==
    LET sig == function_map[exec.function_name]
    IN  \/ exec.arguments.kind # "object"
        \/ \E p \in sig.required : p \notin exec.arguments.keys
        \/ \E k \in exec.arguments.keys : k \notin sig.required /\ k \notin sig.optional

\* C11: for every registered tool, every argument value and everything the
\* adapter can do, execute_function_call returns a result dict: success is
\* true exactly when the arguments fit and the adapter completed
\* successfully; arguments that do not fit give the argument error and run
\* no adapter; a provider failure gives success=false with the adapter's
\* error; an exception leaving the adapter gives the execution error.
C11_DispatcherTotal ==
    (exec.phase = "returned" /\ exec.function_name \in FiveTools) =>
        /\ exec.result.success \in BOOLEAN
        /\ exec.result.success <=> (~C11_Mismatch /\ exec.outcome = "ok")
        /\ C11_Mismatch =>
              /\ exec.result = [success |-> FALSE, data |-> "",
                                error |-> "function argument error"]
              /\ ~exec.adapter_called
        /\ (~C11_Mismatch /\ exec.outcome = "fail") =>
              /\ exec.result.error \notin {"", "function argument error",
                                           "function execution exception"}
              /\ exec.adapter_called
        /\ (~C11_Mismatch /\ exec.outcome = "raise") =>
              exec.result = [success |-> FALSE, data |-> "",
                             error |-> "function execution exception"]

\* get_real_weather called with a keyword it does not have
C11_Witness ==
    /\ exec.phase = "returned"
    /\ exec.function_name = "get_real_weather"
    /\ exec.arguments = JsonObject({"city", "bogus"})
    /\ exec.outcome = "ok"
    /\ exec.result.error = "function argument error"

\* the turns h ends in: an assistant turn listing the invocations tcs, then
\* the tool turns of the first k of them, in that order
C12_EndsInBatch(h, tcs, k) ==
    /\ Len(h) >= k + 1
    /\ HasToolCalls(h[Len(h) - k])
    /\ Len(h[Len(h) - k].tool_calls) = Len(tcs)
    /\ \A j \in 1..Len(tcs) : h[Len(h) - k].tool_calls[j].id = tcs[j].id
    /\ \A j \in 1..k :
          /\ h[Len(h) - k + j].role = "tool"
          /\ h[Len(h) - k + j].tool_call_id = tcs[j].id

\* C12: while a batch is dispatched, the history ends in the assistant turn
\* of the batch followed by the tool turns of the invocations the for loop
\* has passed, in the order the response listed them; the for loop is past
\* all of them when the second create() call is due; and a create() call
\* without tools (looked at when it is the latest call) was given a history
\* that ends in a whole batch: the assistant turn of the latest tool_calls
\* response and one tool turn per invocation, ids in the same order.
C12_SequentialDispatch ==
    /\ pc \in {"dispatch", "call2"} =>
          /\ idx \in 1..(Len(tool_calls) + 1)
          /\ C12_EndsInBatch(conversation_history, tool_calls, idx - 1)
    /\ pc = "call2" => idx = Len(tool_calls) + 1
    /\ (calls # <<>> /\ ~calls[Len(calls)].tools) =>
          /\ Len(calls) >= 2
          /\ calls[Len(calls) - 1].outcome = "tool_calls"
          /\ C12_EndsInBatch(calls[Len(calls)].request.messages,
                             calls[Len(calls) - 1].response.tool_calls,
                             Len(calls[Len(calls) - 1].response.tool_calls))

\* a batch of two different invocations, both resolved before the second call
C12_Witness ==
    /\ Done
    /\ exit = "answer"
    /\ Len(calls) = 2
    /\ Len(calls[1].response.tool_calls) = 2
    /\ calls[1].response.tool_calls[1].id = "call_b"
    /\ calls[1].response.tool_calls[2].id = "call_a"
    /\ Len(calls[2].request.messages) = 4
    /\ calls[2].request.messages[3].tool_call_id = "call_b"
    /\ calls[2].request.messages[4].tool_call_id = "call_a"

\* the create() calls of the exchange that ended in a rate-limit or timeout
\* signal, and those among the first i calls
SignalledCalls(i) ==
    {m \in 1..i : calls[m].outcome \in {"rate_limit", "timeout"}}

RateLimitedCalls(i) == {m \in 1..i : calls[m].outcome = "rate_limit"}

\* C13: there is one wait per rate-limit signal and none for a timeout: the
\* wait after a rate-limited call is 2^a, where a is the number of the
\* attempt that failed, i.e. the count of signalled calls up to and including
\* it, which is the shared counter after its increment; an exchange whose
\* three attempts were all rate-limited waited 2, 4, 8.
C13_Backoff ==
    /\ Len(waits) = Cardinality(RateLimitedCalls(Len(calls)))
    /\ \A i \in 1..Len(calls) :
          calls[i].outcome = "rate_limit" =>
              waits[Cardinality(RateLimitedCalls(i))] = 2 ^ Cardinality(SignalledCalls(i))
    /\ pc \in {"loop", "dispatch", "call2"} =>
          retry_count = Cardinality(SignalledCalls(Len(calls)))
    /\ (Done /\ max_retries = 3 /\ Len(calls) = 3 /\ AllRateLimited) => waits = <<2, 4, 8>>

\* a timeout without a wait, then a rate-limit of the second attempt
C13_Witness ==
    /\ Len(calls) = 2
    /\ calls[1].outcome = "timeout"
    /\ calls[2].outcome = "rate_limit"
    /\ retry_count = 2
    /\ waits = <<4>>

ToolsOfferingCalls == {m \in 1..Len(calls) : calls[m].tools}

\* C14: in one exchange the rate-limit and timeout signals together, raised
\* by either create() call, never number more than max_retries; a returned
\* exchange returned the fallback message exactly when their number is
\* max_retries; while their number is below max_retries the exchange has not
\* given up; and at most max_retries create() calls offered tools.
C14_SharedCounter ==
    LET n == Cardinality(SignalledCalls(Len(calls)))
    IN  /\ n <= max_retries
        /\ Done => ((exit = "fallback") <=> (n = max_retries))
        /\ Done => ((returned = Str(FALLBACK_MESSAGE)) <=> (n = max_retries))
        /\ pc \in {"dispatch", "call2"} => n < max_retries
        /\ Cardinality(ToolsOfferingCalls) <= max_retries

\* a timeout of the second call and a rate-limit of the first call use up a
\* budget of two
C14_Witness ==
    /\ Done
    /\ exit = "fallback"
    /\ max_retries = 2
    /\ Len(calls) = 3
    /\ calls[1].outcome = "tool_calls"
    /\ ~calls[2].tools
    /\ calls[2].outcome = "timeout"
    /\ calls[3].tools
    /\ calls[3].outcome = "rate_limit"

\* C15: when the first create() call of an exchange that succeeds returns a
\* message without tool_calls, that call is the last of the exchange and the
\* exchange has returned its content; no batch was dispatched, no adapter ran
\* and no call without tools was made; the history is the one given to the
\* first call of the exchange, which ends in the user turn, plus one
\* assistant turn with that content.
C15_DirectAnswer ==
    \A i \in 1..Len(calls) :
        (/\ calls[i].outcome = "direct"
         /\ \A m \in 1..(i - 1) : calls[m].outcome \in {"rate_limit", "timeout"}) =>
            /\ i = Len(calls)
            /\ Done
            /\ exit = "direct"
            /\ returned = calls[i].response.content
            /\ batches = 0
            /\ adapter_log = <<>>
            /\ \A m \in 1..Len(calls) : calls[m].tools
            /\ calls[1].request.messages[Len(calls[1].request.messages)].role = "user"
            /\ conversation_history =
                   Append(calls[1].request.messages,
                          [role |-> "assistant", content |-> calls[i].response.content])

\* a direct text reply to the second message of a session, after a timeout
C15_Witness ==
    /\ Done
    /\ exchanges = 2
    /\ Len(calls) = 2
    /\ calls[1].outcome = "timeout"
    /\ calls[2].outcome = "direct"
    /\ returned = Str("answer")
    /\ Len(conversation_history) >= 4

\* C16: the call of chat_with_function_calling that follows an exchange
\* ended by the apology or by the fallback starts like a first one: it
\* appends the user turn to the history as it stands, sets the attempt
\* counter to 0 and enters the retry loop with the max_retries it was given.
C16_FreshStart ==
    [][(pc = "idle" /\ exit \in {"apology", "fallback"} /\ exchanges' = exchanges + 1) =>
          /\ pc' = "loop"
          /\ retry_count' = 0
          /\ max_retries' \in RetryChoices
          /\ \E m \in UserMessages :
                 conversation_history' = Append(conversation_history, UserTurn(m))
          /\ returned' = None
          /\ waits' = <<>>]_vars

\* an exchange after one that failed on a signal: it is retried once after a
\* rate-limit of its own and then completes with an answer
C16_Witness ==
    /\ Done
    /\ exchanges = 2
    /\ conversation_history[1].role = "user"
    /\ conversation_history[2].role = "user"
    /\ signals = 2
    /\ max_retries = 2
    /\ Len(calls) = 2
    /\ calls[1].outcome = "rate_limit"
    /\ calls[2].outcome = "direct"
    /\ exit = "direct"
    /\ returned = Str("answer")

\* the history without the turns of the exchange begun last: the turns before
\* the last user turn
C17_BeforeExchange(h) ==
    LET last_user == CHOOSE i \in 1..Len(h) :
                         /\ h[i].role = "user"
                         /\ \A j \in (i + 1)..Len(h) : h[j].role # "user"
    IN  SubSeq(h, 1, last_user - 1)

\* C17: when KeyboardInterrupt ends the read loop while an exchange is in
\* flight, the history is left without any turn of that exchange: it is the
\* history as it was before the user turn of the exchange was appended.
C17_InterruptDiscards ==
    [][(pc \in {"loop", "dispatch", "call2"} /\ pc' = "exited") =>
          conversation_history' = C17_BeforeExchange(conversation_history)]_vars

\* C18: every create() call is given the whole history as it stands at the
\* call; a call made at the top of the retry loop offers the five tools in
\* the order of the catalogue with tool_choice "auto"; the call made after
\* the for loop passes neither tools nor tool_choice.
C18_CallShapes ==
    [][Len(calls') = Len(calls) + 1 =>
          LET request == calls'[Len(calls')].request
          IN  /\ request.messages = conversation_history
              /\ pc = "loop" =>
                    /\ request.tools = <<"get_real_weather", "search_news",
                                         "analyze_stock", "send_email",
                                         "send_message_with_weixin">>
                    /\ request.tool_choice = <<"auto">>
              /\ pc = "call2" =>
                    /\ request.tools = <<"NOT_GIVEN">>
                    /\ request.tool_choice = <<"NOT_GIVEN">>
              /\ pc \in {"loop", "call2"}]_vars

\* in the second exchange of a session, a call without tools that was given
\* the turns of both exchanges, and before it a call that offered the tools
C18_Witness ==
    /\ exchanges = 2
    /\ Len(calls) = 2
    /\ calls[1].request.tool_choice = <<"auto">>
    /\ Len(calls[1].request.tools) = 5
    /\ calls[2].request.tools = NotGiven
    /\ Len(calls[2].request.messages) = 6
    /\ calls[2].request.messages[2].role = "assistant"
    /\ calls[2].request.messages[3].role = "user"
    /\ calls[2].request.messages[6].role = "tool"

\* the statement position of instance s: it changes in every step s takes
C19_Position(s) == <<pc[s], idx[s], retry_count[s], exchanges[s]>>

\* C19: with two instances running interleaved, a step changes the history
\* of one instance at most, and only of the instance that takes the step;
\* what it does to that history is append one turn of an exchange of that
\* instance (its user's message, an invocation sent to it or the result of
\* one, a reply to it), so that each history, empty at first, only ever
\* holds turns of its own instance, one user turn per exchange it has begun.
C19_SessionIsolation ==
    [][\A s \in Sessions :
          /\ conversation_history'[s] # conversation_history[s] =>
                /\ C19_Position(s)' # C19_Position(s)
                /\ \A t \in Sessions \ {s} :
                       /\ conversation_history'[t] = conversation_history[t]
                       /\ C19_Position(t)' = C19_Position(t)
                /\ \E turn \in TurnsOf(s) :
                       conversation_history'[s] = Append(conversation_history[s], turn)
          /\ Cardinality({i \in 1..Len(conversation_history'[s]) :
                             conversation_history'[s][i].role = "user"}) = exchanges'[s]
      ]_vars

\* both instances in the middle of an exchange at once, each with a tool turn
C19_Witness ==
    /\ pc["s1"] = "call2"
    /\ pc["s2"] = "call2"
    /\ Len(conversation_history["s1"]) = 3
    /\ Len(conversation_history["s2"]) = 3
    /\ conversation_history["s1"][3].tool_call_id = "call_s1"
    /\ conversation_history["s2"][3].tool_call_id = "call_s2"

\* every dict execute_function_call can return
C20_ToolResults ==
    {execute_function_call(function_name, arguments, outcome) :
        function_name \in FunctionNames, arguments \in ParsedValues,
        outcome \in CallOutcomes}

\* a result dict with a success flag and exactly the payload that goes with it
C20_WellFormed(r) ==
    /\ DOMAIN r = {"success", "data", "error"}
    /\ r.success \in BOOLEAN
    /\ r.success => (r.data # "" /\ r.error = "")
    /\ ~r.success => (r.error # "" /\ r.data = "")

C20_AllWellFormed == \A r \in C20_ToolResults : C20_WellFormed(r)

C20_Serialized == {json_dumps(r) : r \in {x \in C20_ToolResults : C20_WellFormed(x)}}

\* C20: every dict execute_function_call can return, for any function name,
\* argument value and adapter outcome, has a success flag, and a data payload
\* without error when it is true, an error without data payload when it is
\* false; the result of every dispatch is such a dict, and the content of
\* a tool turn is the serialization of one (looked at when the tool turn is
\* the latest turn, which every tool turn is when it is appended).
C20_Envelopes ==
    /\ C20_AllWellFormed
    /\ exec.phase = "returned" => C20_WellFormed(exec.result)
    /\ (conversation_history # <<>>
        /\ conversation_history[Len(conversation_history)].role = "tool") =>
          conversation_history[Len(conversation_history)].content \in C20_Serialized

\* a batch with one tool turn of each kind: a provider failure and a success
C20_Witness ==
    /\ pc = "call2"
    /\ Len(conversation_history) = 4
    /\ conversation_history[3].role = "tool"
    /\ conversation_history[4].role = "tool"
    /\ conversation_history[3].content =
           "{\"success\": false, \"error\": \"get_real_weather failed\"}"
    /\ conversation_history[4].content =
           "{\"success\": true, \"data\": \"get_real_weather data\"}"
    /\ exec.result.success

\* C21: whenever chat_with_function_calling has returned, every invocation
\* listed in an assistant turn of the history is resolved: the k-th
\* invocation of the turn is followed, k turns later, by a tool turn with its
\* id.
C21_NoDanglingInvocations ==
    Done =>
        \A i \in 1..Len(conversation_history) :
            HasToolCalls(conversation_history[i]) =>
                \A k \in 1..Len(conversation_history[i].tool_calls) :
                    /\ i + k <= Len(conversation_history)
                    /\ conversation_history[i + k].role = "tool"
                    /\ conversation_history[i + k].tool_call_id =
                           conversation_history[i].tool_calls[k].id

\* the exchange has returned the apology or the fallback and none of its
\* create() calls, all of which offered tools, returned a response
C22_AllCallsFailed ==
    /\ Done
    /\ exit \in {"apology", "fallback"}
    /\ \A i \in 1..Len(calls) :
          /\ calls[i].tools
          /\ calls[i].outcome \in {"rate_limit", "timeout", "error"}

\* C22: an exchange that ends in the apology or the fallback with every
\* tools-offering create() call failed leaves the history as its first call
\* was given it: the history before the exchange plus the user turn, which
\* is its last turn; and the call of chat_with_function_calling that follows
\* appends its user turn right after that one, so that the history then ends
\* in two user turns.
C22_UserTurnKept ==
    [][/\ C22_AllCallsFailed' =>
             /\ conversation_history' # <<>>
             /\ conversation_history'[Len(conversation_history')].role = "user"
             /\ calls' # <<>> => conversation_history' = calls'[1].request.messages
             /\ Len(conversation_history') = Len(conversation_history)
       /\ (C22_AllCallsFailed /\ exchanges' = exchanges + 1) =>
             /\ Len(conversation_history') = Len(conversation_history) + 1
             /\ conversation_history'[Len(conversation_history')].role = "user"
             /\ conversation_history'[Len(conversation_history') - 1].role = "user"
      ]_vars

\* a second exchange whose first create() call is given two user turns, after
\* a first exchange that appended nothing but its user turn
C22_Witness ==
    /\ exchanges = 2
    /\ Len(calls) = 1
    /\ Len(calls[1].request.messages) = 2
    /\ calls[1].request.messages = <<UserTurn("q"), UserTurn("q")>>
    /\ signals = 2

\* the latest create() call was rate-limited and used up the last attempt
C23_LastAttemptRateLimited ==
    /\ calls # <<>>
    /\ calls[Len(calls)].outcome = "rate_limit"
    /\ Cardinality(SignalledCalls(Len(calls))) = max_retries

\* C23: every rate-limited create() call has its wait; when the call that
\* uses up the last attempt is rate-limited, the wait of 2^max_retries is
\* made all the same, before the while test fails: from then on no create()
\* call is made and no tool is dispatched, and what is returned is the
\* fallback message.
C23_WaitBeforeFallback ==
    /\ Len(waits) = Cardinality(RateLimitedCalls(Len(calls)))
    /\ C23_LastAttemptRateLimited =>
          /\ waits # <<>>
          /\ waits[Len(waits)] = 2 ^ max_retries
          /\ pc \in {"loop", "idle"}
          /\ pc = "loop" => retry_count = max_retries
          /\ pc = "idle" => (exit = "fallback" /\ returned = Str(FALLBACK_MESSAGE))

\* a single permitted attempt, rate-limited: one wait of 2, then the fallback
C23_Witness ==
    /\ Done
    /\ exit = "fallback"
    /\ max_retries = 1
    /\ Len(calls) = 1
    /\ calls[1].outcome = "rate_limit"
    /\ waits = <<2>>

====
